---- MODULE Spec2Model ----
(***************************************************************************)
(* A model of MPD's WebDAV storage plugin                                  *)
(* (src/storage/plugins/CurlStorage.cxx): the blocking request adapter,    *)
(* the PROPFIND operation with its XML state machine, the "get info" and   *)
(* "list directory" operations, and the calls GetInfo / OpenDirectory.     *)
(*                                                                         *)
(* Strings are sequences of atoms.  An atom is a run of bytes the model    *)
(* never splits: "/", " ", a digit, a path segment ("music"), a protocol   *)
(* word ("HTTP/1.1"), or, inside a tag, "<", "/", ">" and an element name  *)
(* already resolved to its namespace ("DAV:|response").                    *)
(***************************************************************************)
EXTENDS Integers, Sequences, FiniteSets, TLC

VARIABLES
    pc,               \* per caller thread: where the thread is in GetInfo / OpenDirectory
    ret,              \* per caller thread: what the call gave back (a value or a raised error)
    done,             \* BlockingHttpRequest::done
    postponed_error,  \* BlockingHttpRequest::postponed_error
    mutex,            \* BlockingHttpRequest::mutex: its holder
    deferred,         \* DeferredMonitor: a RunDeferred() call is scheduled
    request,          \* CurlRequest: configuration and registration with the transport
    net,              \* the server's answer the transport will deliver, and how far it got
    io,               \* the transport thread: the handler calls it still has to finish
    xml,              \* CommonExpatParser: the tokenizer's state
    prop,             \* PropfindOperation and its subclass: state, response, info, entries
    hist,             \* history: what happened, for stating the properties
    env,              \* the run's surroundings: what callers ask for, what servers answer
    storage           \* CurlStorage: its base URI and its transport context (curl)

vars == <<pc, ret, done, postponed_error, mutex, deferred, request, net, io,
          xml, prop, hist, env, storage>>

-----------------------------------------------------------------------------
(* Strings *)

NoError == "none"

Digits == <<"0", "1", "2", "3", "4", "5", "6", "7", "8", "9">>

IsDigit(c) == \E i \in 1..10 : Digits[i] = c

DigitVal(c) == (CHOOSE i \in 1..10 : Digits[i] = c) - 1

\* strchr(s, c): the index of the first c in s, 0 when there is none
StrChr(s, c) ==
    IF \E i \in 1..Len(s) : s[i] = c
    THEN CHOOSE i \in 1..Len(s) : s[i] = c /\ \A j \in 1..(i - 1) : s[j] # c
    ELSE 0

Tail_From(s, i) == SubSeq(s, i, Len(s))

RECURSIVE SkipSpaces(_)
SkipSpaces(s) ==
    IF s # <<>> /\ Head(s) = " " THEN SkipSpaces(Tail(s)) ELSE s

RECURSIVE DigitsValue(_, _)
DigitsValue(s, acc) ==
    IF s # <<>> /\ IsDigit(Head(s))
    THEN DigitsValue(Tail(s), acc * 10 + DigitVal(Head(s)))
    ELSE acc

\* strtoul / strtoull(s, nullptr, 10): leading white space is skipped, then
\* the longest run of digits is converted; no digit gives 0.
StrToUL(s) == DigitsValue(SkipSpaces(s), 0)

-----------------------------------------------------------------------------
(* DavResponse and the per-field parsers *)

MinTime == -1

\* The time stamps ParseTimePoint() reads in the format "%a, %d %b %Y %T %Z";
\* every other text makes it throw.
KnownTimeStamps ==
    { [text |-> <<"Sun, 06 Nov 1994", " ", "08:49:37 GMT">>, time |-> 784111777],
      [text |-> <<"Mon, 07 Nov 1994", " ", "08:49:37 GMT">>, time |-> 784198177] }

ParseTimePoint(s) ==
    IF \E k \in KnownTimeStamps : k.text = s
    THEN [ok |-> TRUE, time |-> (CHOOSE k \in KnownTimeStamps : k.text = s).time]
    ELSE [ok |-> FALSE, time |-> 0]

DavResponse ==
    [href |-> <<>>, status |-> 0, collection |-> FALSE, mtime |-> MinTime, length |-> 0]

Check(r) == r.href # <<>>

ParseStatus(s) ==
    LET space == StrChr(s, " ")
    IN  IF space = 0 THEN 0 ELSE StrToUL(Tail_From(s, space + 1))

\* Mutant of ParseTimeStamp: what does not parse is the epoch
ParseTimeStampEpoch(s) ==
    LET t == ParseTimePoint(s)
    IN  IF t.ok THEN t.time ELSE 0

ParseTimeStamp(s) ==
    LET t == ParseTimePoint(s)
    IN  IF t.ok THEN t.time ELSE MinTime

ParseU64(s) == StrToUL(s)

-----------------------------------------------------------------------------
(* StorageFileInfo, and the two operations' OnDavResponse() *)

\* StorageFileInfo(Type): no size, no modification time
StorageFileInfo(type) == [type |-> type, size |-> 0, mtime |-> MinTime]

NullView == [null |-> TRUE, s |-> <<>>]

View(s) == [null |-> FALSE, s |-> s]

\* uri_after_scheme() / uri_get_path(): an absolute URI starts with the atom
\* of its scheme and host; its path starts at the first slash after that
\* (none: no path).  Anything else is a path already.
SchemeHosts == {"http://host", "https://host"}

uri_get_path(uri) ==
    IF uri # <<>> /\ Head(uri) \in SchemeHosts
    THEN LET slash == StrChr(uri, "/")
         IN  IF slash = 0 THEN NullView ELSE View(Tail_From(uri, slash))
    ELSE View(uri)

UriPathOrSlash(uri) ==
    LET path == uri_get_path(uri)
    IN  IF path.null THEN <<"/">> ELSE path.s

\* StringAfterPrefix(s, prefix)
StringAfterPrefix(s, prefix) ==
    IF Len(s) >= Len(prefix) /\ SubSeq(s, 1, Len(prefix)) = prefix
    THEN View(Tail_From(s, Len(prefix) + 1))
    ELSE NullView

\* Mutant of HrefToEscapedName: a slash inside the rest is let through
HrefToEscapedNameKeepsDeep(base_path, href) ==
    LET path == uri_get_path(href)
    IN  IF path.null THEN NullView
        ELSE LET rest == StringAfterPrefix(path.s, base_path)
             IN  IF rest.null \/ rest.s = <<>> THEN NullView
                 ELSE LET slash == StrChr(rest.s, "/")
                      IN  IF slash = 0 THEN View(rest.s)
                          ELSE View(SubSeq(rest.s, 1, slash - 1))

HrefToEscapedName(base_path, href) ==
    LET path == uri_get_path(href)
    IN  IF path.null THEN NullView
        ELSE LET rest == StringAfterPrefix(path.s, base_path)
             IN  IF rest.null \/ rest.s = <<>> THEN NullView
                 ELSE LET slash == StrChr(rest.s, "/")
                      IN  IF slash = 0 THEN View(rest.s)
                          ELSE IF slash = Len(rest.s)
                               THEN View(SubSeq(rest.s, 1, slash - 1))
                               ELSE NullView

\* Mutant of the type: a directory is what has a href ending in a slash
TypeOfTrailingSlash(r) ==
    IF r.href # <<>> /\ r.href[Len(r.href)] = "/" THEN "DIRECTORY" ELSE "REGULAR"

\* The type both operations give a record
TypeOf(r) == IF r.collection THEN "DIRECTORY" ELSE "REGULAR"

\* Mutant of HttpGetInfoOperation::OnDavResponse: the status is not looked at
GetInfoTakesAnyStatus(p, r) ==
    [p EXCEPT !.info = [type |-> IF r.collection THEN "DIRECTORY" ELSE "REGULAR",
                        size |-> r.length, mtime |-> r.mtime]]

\* HttpGetInfoOperation::OnDavResponse
GetInfo_OnDavResponse(p, r) ==
    IF r.status # 200 THEN p
    ELSE [p EXCEPT !.info = [type |-> TypeOf(r), size |-> r.length, mtime |-> r.mtime]]

\* HttpListDirectoryOperation::OnDavResponse: entries.emplace_front()
ListDirectory_OnDavResponse(p, r) ==
    IF r.status # 200 THEN p
    ELSE LET escaped_name == HrefToEscapedName(p.base_path, r.href)
         IN  IF escaped_name.null THEN p
             ELSE [p EXCEPT !.entries =
                     <<[name |-> escaped_name.s,
                        info |-> [StorageFileInfo(TypeOf(r)) EXCEPT
                                    !.size = r.length, !.mtime = r.mtime]]>> \o @]

\* The virtual call PropfindOperation::OnDavResponse; p.emitted is history:
\* the records handed to it so far.
OnDavResponse(p, r) ==
    LET q == [p EXCEPT !.emitted = Append(@, r)]
    IN  IF p.class = "HttpGetInfoOperation"
        THEN GetInfo_OnDavResponse(q, r)
        ELSE ListDirectory_OnDavResponse(q, r)

-----------------------------------------------------------------------------
(* PropfindOperation: the XML state machine *)

\* Mutant of FinishResponse: the record is handed on and keeps its fields
FinishResponseKeepsFields(p) ==
    IF Check(p.response) THEN OnDavResponse(p, p.response) ELSE p

FinishResponse(p) ==
    LET q == IF Check(p.response) THEN OnDavResponse(p, p.response) ELSE p
    IN  [q EXCEPT !.response = DavResponse]

StartElement(p, name) ==
    CASE p.state = "ROOT" ->
           IF name = "DAV:|response" THEN [p EXCEPT !.state = "RESPONSE"] ELSE p
      [] p.state = "RESPONSE" ->
           IF name = "DAV:|href" THEN [p EXCEPT !.state = "HREF"]
           ELSE IF name = "DAV:|status" THEN [p EXCEPT !.state = "STATUS"]
           ELSE IF name = "DAV:|resourcetype" THEN [p EXCEPT !.state = "TYPE"]
           ELSE IF name = "DAV:|getlastmodified" THEN [p EXCEPT !.state = "MTIME"]
           ELSE IF name = "DAV:|getcontentlength" THEN [p EXCEPT !.state = "LENGTH"]
           ELSE p
      [] p.state = "TYPE" ->
           IF name = "DAV:|collection" THEN [p EXCEPT !.response.collection = TRUE] ELSE p
      [] OTHER -> p

\* Mutant of EndElement: a field is left at whatever element ends
EndElementAnyName(p, name) ==
    CASE p.state = "ROOT" -> p
      [] p.state = "RESPONSE" ->
           IF name = "DAV:|response"
           THEN [FinishResponse(p) EXCEPT !.state = "ROOT"]
           ELSE p
      [] OTHER -> [p EXCEPT !.state = "RESPONSE"]

EndElement(p, name) ==
    CASE p.state = "ROOT" -> p
      [] p.state = "RESPONSE" ->
           IF name = "DAV:|response"
           THEN [FinishResponse(p) EXCEPT !.state = "ROOT"]
           ELSE p
      [] p.state = "HREF" ->
           IF name = "DAV:|href" THEN [p EXCEPT !.state = "RESPONSE"] ELSE p
      [] p.state = "STATUS" ->
           IF name = "DAV:|status" THEN [p EXCEPT !.state = "RESPONSE"] ELSE p
      [] p.state = "TYPE" ->
           IF name = "DAV:|resourcetype" THEN [p EXCEPT !.state = "RESPONSE"] ELSE p
      [] p.state = "MTIME" ->
           IF name = "DAV:|getlastmodified" THEN [p EXCEPT !.state = "RESPONSE"] ELSE p
      [] p.state = "LENGTH" ->
           IF name = "DAV:|getcontentlength" THEN [p EXCEPT !.state = "RESPONSE"] ELSE p

CharacterData(p, s) ==
    CASE p.state = "HREF" -> [p EXCEPT !.response.href = s]
      [] p.state = "STATUS" -> [p EXCEPT !.response.status = ParseStatus(s)]
      [] p.state = "MTIME" -> [p EXCEPT !.response.mtime = ParseTimeStamp(s)]
      [] p.state = "LENGTH" -> [p EXCEPT !.response.length = ParseU64(s)]
      [] OTHER -> p

\* A PropfindOperation as its constructors leave it
NewOperation(class, uri) ==
    [class |-> class,
     state |-> "ROOT",
     response |-> DavResponse,
     info |-> StorageFileInfo("OTHER"),
     base_path |-> UriPathOrSlash(uri),
     entries |-> <<>>,
     emitted |-> <<>>]

-----------------------------------------------------------------------------
(* CommonExpatParser: the streaming tokenizer under the state machine.     *)
(* It keeps an incomplete tag until the rest arrives, hands text to        *)
(* CharacterData() as far as it has it, and reports a malformed document   *)
(* when the stream ends.                                                   *)

NewParser == [buf |-> <<>>, stack |-> <<>>, root_done |-> FALSE, bad |-> FALSE]

IsName(a) == a \notin {"<", ">", "/"}

\* One complete tag, without its "<" and ">"
ParseTag(p, x, tag) ==
    IF Len(tag) = 1 /\ IsName(tag[1])
    THEN IF x.stack = <<>> /\ x.root_done
         THEN [p |-> p, x |-> [x EXCEPT !.bad = TRUE]]
         ELSE [p |-> StartElement(p, tag[1]),
               x |-> [x EXCEPT !.stack = <<tag[1]>> \o @]]
    ELSE IF Len(tag) = 2 /\ tag[1] = "/" /\ IsName(tag[2])
    THEN IF x.stack = <<>> \/ Head(x.stack) # tag[2]
         THEN [p |-> p, x |-> [x EXCEPT !.bad = TRUE]]
         ELSE [p |-> EndElement(p, tag[2]),
               x |-> [x EXCEPT !.stack = Tail(@),
                               !.root_done = (Len(x.stack) = 1)]]
    ELSE IF Len(tag) = 2 /\ IsName(tag[1]) /\ tag[2] = "/"
    THEN IF x.stack = <<>>
         THEN [p |-> p, x |-> [x EXCEPT !.bad = TRUE]]
         ELSE [p |-> EndElement(StartElement(p, tag[1]), tag[1]), x |-> x]
    ELSE [p |-> p, x |-> [x EXCEPT !.bad = TRUE]]

\* A run of text
ParseText(p, x, text) ==
    IF x.stack = <<>>
    THEN [p |-> p, x |-> [x EXCEPT !.bad = TRUE]]
    ELSE [p |-> CharacterData(p, text), x |-> x]

\* The tokenizer over what it has: complete tags and runs of text are handed
\* on, an incomplete tag stays in the buffer.  st is <<p, x, input>>.
RECURSIVE Scan(_)
ScanStep(p, x, input) ==
    IF input = <<>> \/ x.bad
    THEN [p |-> p, x |-> [x EXCEPT !.buf = <<>>]]
    ELSE IF Head(input) = "<"
    THEN LET close == StrChr(input, ">")
         IN  IF close = 0
             THEN [p |-> p, x |-> [x EXCEPT !.buf = input]]
             ELSE LET r == ParseTag(p, x, SubSeq(input, 2, close - 1))
                  IN  Scan(<<r.p, r.x, Tail_From(input, close + 1)>>)
    ELSE LET lt == StrChr(input, "<")
             n == IF lt = 0 THEN Len(input) ELSE lt - 1
             r == ParseText(p, x, SubSeq(input, 1, n))
         IN  Scan(<<r.p, r.x, Tail_From(input, n + 1)>>)

Scan(st) == CHOOSE r \in {ScanStep(s[1], s[2], s[3]) : s \in {st}} : TRUE

\* CommonExpatParser::Parse(data, length, is_final)
Parse(p, x, data, is_final) ==
    LET r == Scan(<<p, [x EXCEPT !.buf = <<>>], x.buf \o data>>)
        failed == is_final /\ (r.x.bad \/ r.x.buf # <<>> \/ r.x.stack # <<>>
                               \/ ~r.x.root_done)
    IN  [p |-> r.p, x |-> r.x, error |-> IF failed THEN "ExpatError" ELSE NoError,
         set_done |-> FALSE]

-----------------------------------------------------------------------------
(* PropfindOperation: the CurlResponseHandler methods.  Each gives the new *)
(* operation and parser, the exception it throws (NoError: none) and       *)
(* whether it goes on to LockSetDone().                                    *)

StatusError == "Status from WebDAV server; expected 207 Multi-Status"

ContentTypeError == "Unexpected Content-Type from WebDAV server"

\* Mutant of OnHeaders: the status is not looked at
OnHeadersIgnoresStatus(status, headers) ==
    IF "content-type" \notin DOMAIN headers
       \/ headers["content-type"] = <<>>
       \/ Head(headers["content-type"]) # "text/xml"
    THEN ContentTypeError
    ELSE NoError

OnHeaders(status, headers) ==
    IF status # 207 THEN StatusError
    ELSE IF "content-type" \notin DOMAIN headers
            \/ headers["content-type"] = <<>>
            \/ Head(headers["content-type"]) # "text/xml"
         THEN ContentTypeError
         ELSE NoError

OnData(p, x, data) ==
    [Parse(p, x, data, FALSE) EXCEPT !.set_done = FALSE]

\* Mutant of OnEnd: LockSetDone() whether or not Parse() throws
OnEndSetsDoneFirst(p, x) ==
    [Parse(p, x, <<>>, TRUE) EXCEPT !.set_done = TRUE]

\* Mutant of OnEnd: the last Parse() call does not say that the stream is over
OnEndNotFinal(p, x) ==
    [Parse(p, x, <<>>, FALSE) EXCEPT !.set_done = TRUE]

OnEnd(p, x) ==
    LET r == Parse(p, x, <<>>, TRUE)
    IN  [r EXCEPT !.set_done = (r.error = NoError)]

-----------------------------------------------------------------------------
(* The documents a server may answer with *)

Open(name) == <<"<", name, ">">>

Close(name) == <<"<", "/", name, ">">>

Empty(name) == <<"<", name, "/", ">">>

Elem(name, content) == Open(name) \o content \o Close(name)

StatusOk == <<"HTTP/1.1", " ", "2", "0", "0", " ", "OK">>

\* The reason phrase is optional
StatusOkShort == <<"HTTP/1.1", " ", "2", "0", "0">>

\* A response element as servers send it: the properties inside propstat / prop
ResponseXml(href, status, collection, length) ==
    Elem("DAV:|response",
         Elem("DAV:|href", href)
         \o Elem("DAV:|propstat",
                 Elem("DAV:|prop",
                      Elem("DAV:|resourcetype",
                           IF collection THEN Empty("DAV:|collection") ELSE <<>>)
                      \o Elem("DAV:|getcontentlength", length))
                 \o Elem("DAV:|status", status)))

\* The same without the wrappers, which the state machine does not look at
FlatResponseXml(href, status, collection, length) ==
    Elem("DAV:|response",
         Elem("DAV:|href", href)
         \o Elem("DAV:|resourcetype",
                 IF collection THEN Empty("DAV:|collection") ELSE <<>>)
         \o Elem("DAV:|getcontentlength", length)
         \o Elem("DAV:|status", status))

Multistatus(responses) == Elem("DAV:|multistatus", responses)

FileHref == <<"/", "a.mp3">>

DirHref == <<"/", "sub", "/">>

DocFile == Multistatus(ResponseXml(FileHref, StatusOk, FALSE, <<"1", "2">>))

DirXml == FlatResponseXml(DirHref, StatusOkShort, TRUE, <<"0">>)

DocDir ==
    Multistatus(DirXml \o FlatResponseXml(FileHref, StatusOkShort, FALSE, <<"1", "2">>))

\* Malformed: the stream ends inside the second response
DocTruncated == SubSeq(DocDir, 1, 3 + Len(DirXml) + 8)

\* Malformed: an end tag that closes the wrong element
DocMismatched ==
    Open("DAV:|multistatus") \o DirXml \o Open("DAV:|response")
    \o Close("DAV:|multistatus")

Bodies == {DocFile, DocDir, DocTruncated, DocMismatched, <<>>}

XmlHeaders == ("content-type" :> <<"text/xml", "; charset=utf-8">>)

\* An answer is what arrives of it: the status, the headers, the bytes of the
\* body and how the transfer ends, "ok" or with the transport's error; with
\* status 0 the transfer fails before any header arrives.
Answer(status, headers, body, end) ==
    [status |-> status, headers |-> headers, body |-> body, end |-> end]

Answers ==
    { Answer(207, XmlHeaders, b, "ok") : b \in Bodies }
    \cup { Answer(200, XmlHeaders, DocFile, "ok"),
           Answer(404, XmlHeaders, <<>>, "ok"),
           Answer(207, ("content-type" :> <<"text/html">>), DocFile, "ok"),
           Answer(207, ("server" :> <<"dav">>), DocFile, "ok"),
           Answer(207, ("content-type" :> <<"application/xml", "; charset=utf-8">>),
                  DocFile, "ok"),
           Answer(0, <<>>, <<>>, "CURLE_COULDNT_CONNECT"),
           Answer(207, XmlHeaders, SubSeq(DocDir, 1, 3 + Len(DirXml)),
                  "CURLE_OPERATION_TIMEDOUT"),
           Answer(207, XmlHeaders, SubSeq(DocFile, 1, 12), "CURLE_RECV_ERROR") }

\* A document is well formed when its tags nest and it has one root element.
\* st is <<doc, open, roots>>: what is left, the open elements, the roots so far.
RECURSIVE Nests(_)
NestsStep(doc, open, roots) ==
    IF doc = <<>> THEN open = <<>> /\ roots = 1
    ELSE IF Head(doc) # "<" THEN open # <<>> /\ Nests(<<Tail(doc), open, roots>>)
    ELSE LET close == StrChr(doc, ">")
             tag == SubSeq(doc, 2, close - 1)
             rest == Tail_From(doc, close + 1)
         IN  /\ close # 0
             /\ \/ /\ Len(tag) = 1 /\ IsName(tag[1])
                   /\ (open = <<>> => roots = 0)
                   /\ Nests(<<rest, <<tag[1]>> \o open,
                              IF open = <<>> THEN roots + 1 ELSE roots>>)
                \/ /\ Len(tag) = 2 /\ tag[1] = "/"
                   /\ open # <<>> /\ Head(open) = tag[2]
                   /\ Nests(<<rest, Tail(open), roots>>)
                \/ /\ Len(tag) = 2 /\ tag[2] = "/" /\ IsName(tag[1])
                   /\ open # <<>>
                   /\ Nests(<<rest, open, roots>>)

Nests(st) == \A s \in {st} : NestsStep(s[1], s[2], s[3])

WellFormed(doc) == Nests(<<doc, <<>>, 0>>)

-----------------------------------------------------------------------------
(* CurlStorage: the URI of a call *)

\* CurlStorage::base
Base == <<"http://host", "/">>

\* CurlStorage::CurlStorage: the base URI, and the transport context in use
\* (curl), with the thread that deleted it
CurlStorage(base) == [base |-> base, curl |-> "alive", deleted_on |-> "none"]

EscapeAtom(a) == IF a = " " THEN "%20" ELSE IF a = "/" THEN "%2F" ELSE a

\* curl_easy_escape(): everything but unreserved characters is percent-encoded
curl_easy_escape(s) == [i \in 1..Len(s) |-> EscapeAtom(s[i])]

GetInfoUri(uri_utf8) == Base \o curl_easy_escape(uri_utf8)

OpenDirectoryUri(uri_utf8) ==
    LET uri == Base \o curl_easy_escape(uri_utf8)
    IN  IF uri[Len(uri)] # "/" THEN Append(uri, "/") ELSE uri


-----------------------------------------------------------------------------
(* The state *)

Threads == {"t1"}

MaxWakeups == 1

\* OnData() gets up to MaxChunk atoms of the body, or all that is left of it
MaxChunk == 4

ChunkSizes(left) == {n \in 1..left : n <= MaxChunk \/ n = left}

NoAnswer == Answer(0, <<>>, <<>>, "ok")

NoEvent == [kind |-> "none", name |-> ""]

NewHistory ==
    [event |-> NoEvent,             \* the last parser event
     started_on |-> "none",         \* the thread that ran request.Start()
     started_configured |-> FALSE,  \* the request was configured when it started
     set_done_calls |-> 0,          \* calls of SetDone()
     assert_failed |-> FALSE,       \* an assert(!done) met done = true
     on_error_arg |-> NoError,      \* what the transport passed to OnError()
     headers_seen |-> FALSE,        \* OnHeaders() was called
     parse_called |-> FALSE,        \* Parse() was called
     bytes_parsed |-> FALSE,        \* Parse() was handed bytes of the body
     parse_error_in |-> "none",     \* the handler in which Parse() threw
     end_called |-> FALSE,          \* OnEnd() was called
     wakeups |-> 0]                 \* spurious wake-ups of cond.wait()

IoIdle == [op |-> "none", todo |-> <<>>]

InitFor(threads, surroundings) ==
    /\ pc = [t \in threads |-> "idle"]
    /\ ret = [t \in threads |-> [kind |-> "none"]]
    /\ done = [t \in threads |-> FALSE]
    /\ postponed_error = [t \in threads |-> NoError]
    /\ mutex = [t \in threads |-> "free"]
    /\ deferred = [t \in threads |-> FALSE]
    /\ request = [t \in threads |-> [configured |-> FALSE, registered |-> FALSE]]
    /\ net = [t \in threads |-> [answer |-> NoAnswer, phase |-> "none", pos |-> 0]]
    /\ io = IoIdle
    /\ xml = [t \in threads |-> NewParser]
    /\ prop = [t \in threads |-> NewOperation("none", <<>>)]
    /\ hist = [t \in threads |-> NewHistory]
    /\ env = surroundings

\* The whole system: one caller, any of the answers
Init ==
    /\ InitFor(Threads, [uris |-> {<<>>}, answers |-> Answers, responses |-> {}])
    /\ storage = CurlStorage(Base)

-----------------------------------------------------------------------------
(* BlockingHttpRequest *)

\* CurlRequest::Start(), run by `thread`: the request is registered with the
\* transport, which will deliver some server's answer.  h is the history so far.
Start(o, thread, h) ==
    /\ request' = [request EXCEPT ![o].registered = TRUE]
    /\ \E a \in env.answers :
          net' = [net EXCEPT ![o] = [answer |-> a, phase |-> "headers", pos |-> 0]]
    /\ hist' = [hist EXCEPT ![o] =
                  [h EXCEPT !.started_on = thread,
                            !.started_configured = request[o].configured]]

\* Mutant of the constructor: request.Start() where the constructor runs
BlockingHttpRequestStartsInline(o) ==
    /\ Start(o, o, hist[o])
    /\ UNCHANGED deferred

\* BlockingHttpRequest::BlockingHttpRequest: DeferredMonitor::Schedule()
BlockingHttpRequest(o) ==
    /\ deferred' = [deferred EXCEPT ![o] = TRUE]
    /\ UNCHANGED <<request, net, hist>>

\* Mutant of Wait: `if (!done)` in place of `while (!done)`
WaitIfInsteadOfWhile(is_done, error, waited) ==
    IF ~is_done /\ ~waited THEN "wait"
    ELSE IF error # NoError THEN "rethrow" ELSE "return"

\* BlockingHttpRequest::Wait, with the mutex held: wait (again, when waited
\* says that cond.wait() has just come back), rethrow or return
Wait(is_done, error, waited) ==
    IF ~is_done THEN "wait"
    ELSE IF error # NoError THEN "rethrow" ELSE "return"

\* Mutant of SetDone: one done flag and one condition for all operations
SetDoneOfAll(o, h) ==
    /\ request' = [request EXCEPT ![o].registered = FALSE]
    /\ done' = [t \in DOMAIN done |-> TRUE]
    /\ pc' = [t \in DOMAIN pc |-> IF pc[t] = "blocked" THEN "woken" ELSE pc[t]]
    /\ hist' = [hist EXCEPT ![o] =
                  [h EXCEPT !.set_done_calls = @ + 1,
                            !.assert_failed = @ \/ done[o]]]

\* Mutant of SetDone: no cond.signal()
SetDoneSilently(o, h) ==
    /\ request' = [request EXCEPT ![o].registered = FALSE]
    /\ done' = [done EXCEPT ![o] = TRUE]
    /\ pc' = pc
    /\ hist' = [hist EXCEPT ![o] =
                  [h EXCEPT !.set_done_calls = @ + 1,
                            !.assert_failed = @ \/ done[o]]]

\* BlockingHttpRequest::SetDone, with the mutex held; h is the history so far.
SetDone(o, h) ==
    /\ request' = [request EXCEPT ![o].registered = FALSE]
    /\ done' = [done EXCEPT ![o] = TRUE]
    /\ pc' = [pc EXCEPT ![o] = IF @ = "blocked" THEN "woken" ELSE @]
    /\ hist' = [hist EXCEPT ![o] =
                  [h EXCEPT !.set_done_calls = @ + 1,
                            !.assert_failed = @ \/ done[o]]]

\* BlockingHttpRequest::LockSetDone
LockSetDone(o) ==
    /\ mutex[o] = "free"
    /\ SetDone(o, hist[o])
    /\ UNCHANGED postponed_error

\* BlockingHttpRequest::OnError
OnError(o, e) ==
    /\ mutex[o] = "free"
    /\ postponed_error' = [postponed_error EXCEPT ![o] = e]
    /\ SetDone(o, [hist[o] EXCEPT !.on_error_arg = e])

\* BlockingHttpRequest::RunDeferred, on the transport thread
RunDeferred(o) ==
    /\ deferred[o] /\ io = IoIdle
    /\ deferred' = [deferred EXCEPT ![o] = FALSE]
    /\ Start(o, "io", [hist[o] EXCEPT !.assert_failed = @ \/ done[o]])
    /\ UNCHANGED <<pc, ret, done, postponed_error, mutex, io, xml, prop, env, storage>>

-----------------------------------------------------------------------------
(* The caller threads: GetInfo / OpenDirectory, Perform, Wait *)

NoInfo == [type |-> "none", size |-> 0, mtime |-> MinTime]

NoResult == [kind |-> "none", error |-> NoError, info |-> NoInfo, entries |-> <<>>]

\* Mutant of Perform: the exception of Wait() is caught and the result returned
PerformSwallowsError(p, outcome, error) ==
    IF p.class = "HttpGetInfoOperation"
    THEN [NoResult EXCEPT !.kind = "info", !.info = p.info]
    ELSE [NoResult EXCEPT !.kind = "reader", !.entries = p.entries]

\* What Perform() does once Wait() is over: an exception of Wait() leaves it,
\* otherwise it returns the info, or a reader over the entries (ToReader).
Perform(p, outcome, error) ==
    IF outcome = "rethrow"
    THEN [NoResult EXCEPT !.kind = "raised", !.error = error]
    ELSE IF p.class = "HttpGetInfoOperation"
         THEN [NoResult EXCEPT !.kind = "info", !.info = p.info]
         ELSE [NoResult EXCEPT !.kind = "reader", !.entries = p.entries]

\* CurlStorage::GetInfo up to the end of BlockingHttpRequest's constructor
GetInfo(t) ==
    /\ pc[t] = "idle"
    /\ \E uri_utf8 \in env.uris :
          prop' = [prop EXCEPT ![t] =
                     NewOperation("HttpGetInfoOperation", GetInfoUri(uri_utf8))]
    /\ BlockingHttpRequest(t)
    /\ pc' = [pc EXCEPT ![t] = "ctor"]
    /\ UNCHANGED <<ret, done, postponed_error, mutex, io, xml, env, storage>>

\* CurlStorage::OpenDirectory up to the end of BlockingHttpRequest's constructor
OpenDirectory(t) ==
    /\ pc[t] = "idle"
    /\ \E uri_utf8 \in env.uris :
          prop' = [prop EXCEPT ![t] =
                     NewOperation("HttpListDirectoryOperation",
                                  OpenDirectoryUri(uri_utf8))]
    /\ BlockingHttpRequest(t)
    /\ pc' = [pc EXCEPT ![t] = "ctor"]
    /\ UNCHANGED <<ret, done, postponed_error, mutex, io, xml, env, storage>>

\* The member initializers of HttpGetInfoOperation (info) and of
\* HttpListDirectoryOperation (entries), which run after the constructor of
\* PropfindOperation: the member is as new, unless the transport thread has
\* written to it in the meantime, and then it is as new or as written.
MemberInitializers(p) ==
    IF p.class = "HttpGetInfoOperation"
    THEN {[p EXCEPT !.info = i] : i \in {StorageFileInfo("OTHER"), p.info}}
    ELSE {[p EXCEPT !.entries = e] : e \in {<<>>, p.entries}}

\* PropfindOperation::PropfindOperation: the body, which configures the
\* request, and after it the rest of the construction
PropfindOperation(t) ==
    /\ pc[t] = "ctor"
    /\ request' = [request EXCEPT ![t].configured = TRUE]
    /\ \E p \in MemberInitializers(prop[t]) : prop' = [prop EXCEPT ![t] = p]
    /\ pc' = [pc EXCEPT ![t] = "perform"]
    /\ UNCHANGED <<ret, done, postponed_error, mutex, deferred, net, io, xml, hist, env, storage>>

\* Wait(): the lock is taken, on entry and when cond.wait() comes back
WaitLock(t) ==
    /\ pc[t] \in {"perform", "woken"}
    /\ mutex[t] = "free"
    /\ mutex' = [mutex EXCEPT ![t] = t]
    /\ pc' = [pc EXCEPT ![t] = IF @ = "perform" THEN "locked" ELSE "relocked"]
    /\ UNCHANGED <<ret, done, postponed_error, deferred, request, net, io, xml, prop, hist, env, storage>>

\* Wait(): `while (!done) cond.wait(mutex)`, then the rethrow or the return,
\* and with it the end of Perform()
WaitCheck(t) ==
    /\ pc[t] \in {"locked", "relocked"}
    /\ mutex' = [mutex EXCEPT ![t] = "free"]
    /\ LET outcome == Wait(done[t], postponed_error[t], pc[t] = "relocked")
       IN  IF outcome = "wait"
           THEN /\ pc' = [pc EXCEPT ![t] = "blocked"]
                /\ UNCHANGED ret
           ELSE /\ pc' = [pc EXCEPT ![t] = "finished"]
                /\ ret' = [ret EXCEPT ![t] = Perform(prop[t], outcome, postponed_error[t])]
    /\ UNCHANGED <<done, postponed_error, deferred, request, net, io, xml, prop, hist, env, storage>>

\* cond.wait() may come back without a signal
SpuriousWakeup(t) ==
    /\ pc[t] = "blocked"
    /\ hist[t].wakeups < MaxWakeups
    /\ pc' = [pc EXCEPT ![t] = "woken"]
    /\ hist' = [hist EXCEPT ![t].wakeups = @ + 1]
    /\ UNCHANGED <<ret, done, postponed_error, mutex, deferred, request, net, io, xml, prop, env, storage>>

-----------------------------------------------------------------------------
(* The transport thread: what CurlRequest calls, and when.  The handler    *)
(* methods are called for a registered request only, OnHeaders() before    *)
(* the first OnData() or OnEnd(), and an exception a handler method throws *)
(* is passed to OnError().                                                 *)

\* The calls the transport thread has to finish after a handler method
Todo(set_done, error) ==
    (IF set_done THEN <<[call |-> "LockSetDone", error |-> NoError]>> ELSE <<>>)
    \o (IF error # NoError THEN <<[call |-> "OnError", error |-> error]>> ELSE <<>>)

\* The transport thread after a handler method of operation o
AfterHandler(o, set_done, error) ==
    IF ~set_done /\ error = NoError THEN IoIdle
    ELSE [op |-> o, todo |-> Todo(set_done, error)]

TransportHeaders(o) ==
    /\ io = IoIdle /\ request[o].registered /\ net[o].phase = "headers"
    /\ net[o].answer.status # 0
    /\ LET error == OnHeaders(net[o].answer.status, net[o].answer.headers)
       IN  /\ io' = AfterHandler(o, FALSE, error)
           /\ net' = [net EXCEPT ![o].phase = "body"]
           /\ hist' = [hist EXCEPT ![o].headers_seen = TRUE]
    /\ UNCHANGED <<pc, ret, done, postponed_error, mutex, deferred, request, xml, prop, env, storage>>

TransportData(o) ==
    /\ io = IoIdle /\ request[o].registered /\ net[o].phase = "body"
    /\ \E n \in ChunkSizes(Len(net[o].answer.body) - net[o].pos) :
          \E r \in {OnData(prop[o], xml[o],
                             SubSeq(net[o].answer.body, net[o].pos + 1, net[o].pos + n))} :
              /\ prop' = [prop EXCEPT ![o] = r.p]
              /\ xml' = [xml EXCEPT ![o] = r.x]
              /\ io' = AfterHandler(o, r.set_done, r.error)
              /\ net' = [net EXCEPT ![o].pos = @ + n]
              /\ hist' = [hist EXCEPT ![o].parse_called = TRUE,
                                      ![o].bytes_parsed = TRUE,
                                      ![o].parse_error_in =
                                          IF r.error # NoError THEN "OnData" ELSE @]
    /\ UNCHANGED <<pc, ret, done, postponed_error, mutex, deferred, request, env, storage>>

TransportEnd(o) ==
    /\ io = IoIdle /\ request[o].registered /\ net[o].phase = "body"
    /\ net[o].pos = Len(net[o].answer.body)
    /\ net[o].answer.end = "ok"
    /\ \E r \in {OnEnd(prop[o], xml[o])} :
           /\ prop' = [prop EXCEPT ![o] = r.p]
           /\ xml' = [xml EXCEPT ![o] = r.x]
           /\ io' = AfterHandler(o, r.set_done, r.error)
           /\ net' = [net EXCEPT ![o].phase = "closed"]
           /\ hist' = [hist EXCEPT ![o].parse_called = TRUE,
                                   ![o].end_called = TRUE,
                                   ![o].parse_error_in =
                                       IF r.error # NoError THEN "OnEnd" ELSE @]
    /\ UNCHANGED <<pc, ret, done, postponed_error, mutex, deferred, request, env, storage>>

\* The transfer fails: no connection, a time-out, a connection that breaks
TransportFail(o) ==
    /\ io = IoIdle /\ request[o].registered
    /\ net[o].answer.end # "ok"
    /\ IF net[o].answer.status = 0
       THEN net[o].phase = "headers"
       ELSE net[o].phase = "body" /\ net[o].pos = Len(net[o].answer.body)
    /\ io' = AfterHandler(o, FALSE, net[o].answer.end)
    /\ net' = [net EXCEPT ![o].phase = "closed"]
    /\ UNCHANGED <<pc, ret, done, postponed_error, mutex, deferred, request, xml, prop, hist, env, storage>>

\* The transport thread finishes the next call it owes
IoStep(o) ==
    /\ io.op = o /\ io.todo # <<>>
    /\ IF Head(io.todo).call = "LockSetDone"
       THEN LockSetDone(o)
       ELSE OnError(o, Head(io.todo).error)
    /\ io' = IF Len(io.todo) = 1 THEN IoIdle ELSE [io EXCEPT !.todo = Tail(@)]
    /\ UNCHANGED <<ret, mutex, deferred, net, xml, prop, env, storage>>

-----------------------------------------------------------------------------
(* CurlStorage::~CurlStorage.  BlockingCall() runs the function on the     *)
(* event loop's thread and returns when it has run; called on that thread  *)
(* it runs the function at once.  The storage is destroyed by a thread     *)
(* that has no operation under way.                                        *)

\* Mutant of the destructor: `delete curl` where the destructor runs
DeleteInline(t) ==
    /\ storage' = [storage EXCEPT !.curl = "deleted", !.deleted_on = t]
    /\ pc' = [pc EXCEPT ![t] = "destroyed"]

\* ~CurlStorage on a caller's thread: BlockingCall() hands `delete curl` to
\* the event loop and blocks
BlockingCallDelete(t) ==
    /\ storage' = [storage EXCEPT !.curl = "deleting"]
    /\ pc' = [pc EXCEPT ![t] = "dtor"]

DestroyStorage(t) ==
    /\ pc[t] \in {"idle", "finished"} /\ storage.curl = "alive"
    /\ \A u \in DOMAIN pc \ {t} : pc[u] \in {"idle", "finished"}
    /\ BlockingCallDelete(t)
    /\ UNCHANGED <<ret, done, postponed_error, mutex, deferred, request, net, io,
                   xml, prop, hist, env>>

\* The event loop's thread runs `delete curl`
RunDelete ==
    /\ storage.curl = "deleting" /\ io = IoIdle
    /\ storage' = [storage EXCEPT !.curl = "deleted", !.deleted_on = "io"]
    /\ UNCHANGED <<pc, ret, done, postponed_error, mutex, deferred, request, net,
                   io, xml, prop, hist, env>>

\* BlockingCall() returns, and with it the destructor
DestroyReturn(t) ==
    /\ pc[t] = "dtor" /\ storage.curl = "deleted"
    /\ pc' = [pc EXCEPT ![t] = "destroyed"]
    /\ UNCHANGED <<ret, done, postponed_error, mutex, deferred, request, net, io,
                   xml, prop, hist, env, storage>>

\* ~CurlStorage on the event loop's thread: BlockingCall() runs `delete curl`
\* at once
DestroyOnEventLoop ==
    /\ storage.curl = "alive" /\ io = IoIdle
    /\ \A u \in DOMAIN pc : pc[u] \in {"idle", "finished"}
    /\ storage' = [storage EXCEPT !.curl = "deleted", !.deleted_on = "io"]
    /\ pc' = [u \in DOMAIN pc |-> "gone"]
    /\ UNCHANGED <<ret, done, postponed_error, mutex, deferred, request, net, io,
                   xml, prop, hist, env>>

-----------------------------------------------------------------------------

Next ==
    \E t \in Threads :
        \/ GetInfo(t)
        \/ OpenDirectory(t)
        \/ PropfindOperation(t)
        \/ WaitLock(t)
        \/ WaitCheck(t)
        \/ SpuriousWakeup(t)
        \/ RunDeferred(t)
        \/ TransportHeaders(t)
        \/ TransportData(t)
        \/ TransportEnd(t)
        \/ TransportFail(t)
        \/ IoStep(t)
        \/ DestroyStorage(t)
        \/ RunDelete
        \/ DestroyReturn(t)
        \/ DestroyOnEventLoop

Spec == Init /\ [][Next]_vars

-----------------------------------------------------------------------------
(* The operations over the records of an answer: the server answers with a *)
(* multistatus document of up to MaxRecords response elements, any of      *)
(* ResponseElements in any order, and each OnData() call brings one whole  *)
(* element.                                                                *)

MaxRecords == 3

StatusNotFound == <<"HTTP/1.1", " ", "4", "0", "4", " ", "Not Found">>

SunTime == <<"Sun, 06 Nov 1994", " ", "08:49:37 GMT">>

MonTime == <<"Mon, 07 Nov 1994", " ", "08:49:37 GMT">>

\* A response element with all the properties the state machine reads
TimedResponseXml(href, status, collection, length, time) ==
    Elem("DAV:|response",
         Elem("DAV:|href", href)
         \o Elem("DAV:|resourcetype",
                 IF collection THEN Empty("DAV:|collection") ELSE <<>>)
         \o Elem("DAV:|getlastmodified", time)
         \o Elem("DAV:|getcontentlength", length)
         \o Elem("DAV:|status", status))

\* The path of something below the collection /music/
Music(rest) == <<"/", "music", "/">> \o rest

ResponseElements ==
    { TimedResponseXml(Music(<<"a.mp3">>), StatusOkShort, FALSE, <<"1", "2">>, SunTime),
      TimedResponseXml(Music(<<"sub", "/">>), StatusOkShort, TRUE, <<"0">>, MonTime),
      TimedResponseXml(Music(<<"sub", "/">>), StatusOkShort, FALSE, <<"0">>, MonTime),
      TimedResponseXml(Music(<<"sub", "/", "deep.mp3">>), StatusOkShort, FALSE, <<"7">>, SunTime),
      TimedResponseXml(Music(<<>>), StatusOkShort, TRUE, <<"0">>, MonTime),
      TimedResponseXml(<<"/", "other", "/", "b.mp3">>, StatusOkShort, FALSE, <<"9">>, SunTime),
      TimedResponseXml(<<"http://host">> \o Music(<<"c.mp3">>), StatusOkShort, FALSE, <<"3">>, MonTime),
      TimedResponseXml(Music(<<"a.mp3">>), StatusNotFound, FALSE, <<"5">>, MonTime),
      TimedResponseXml(Music(<<"/">>), StatusOkShort, TRUE, <<"0">>, SunTime) }

\* The response elements in what has arrived of a body
ResponsesIn(body) ==
    Cardinality({i \in 2..Len(body) : body[i - 1] = "<" /\ body[i] = "DAV:|response"})

\* The operation of a caller that asked for "music" and is now blocked in
\* Wait(): the transfer was started, the answer's headers were accepted, and
\* the body is about to arrive
InitRecordsOf(responses) ==
    /\ pc = [t \in Threads |-> "blocked"]
    /\ ret = [t \in Threads |-> [kind |-> "none"]]
    /\ done = [t \in Threads |-> FALSE]
    /\ postponed_error = [t \in Threads |-> NoError]
    /\ mutex = [t \in Threads |-> "free"]
    /\ deferred = [t \in Threads |-> FALSE]
    /\ request = [t \in Threads |-> [configured |-> TRUE, registered |-> TRUE]]
    /\ net = [t \in Threads |->
                [answer |-> Answer(207, XmlHeaders, <<>>, "ok"),
                 phase |-> "body", pos |-> 0]]
    /\ io = IoIdle
    /\ xml = [t \in Threads |-> NewParser]
    /\ \E uri \in {GetInfoUri(<<"music">>), OpenDirectoryUri(<<"music">>)} :
          prop = [t \in Threads |->
                    NewOperation(IF uri[Len(uri)] = "/"
                                 THEN "HttpListDirectoryOperation"
                                 ELSE "HttpGetInfoOperation", uri)]
    /\ hist = [t \in Threads |->
                 [NewHistory EXCEPT !.started_on = "io",
                                    !.started_configured = TRUE,
                                    !.headers_seen = TRUE]]
    /\ env = [uris |-> {<<"music">>}, answers |-> {}, responses |-> responses]
    /\ storage = CurlStorage(Base)

InitRecords == InitRecordsOf(ResponseElements)

\* The handler calls OnData() with data the server has just sent
Deliver(o, data) ==
    /\ io = IoIdle /\ request[o].registered /\ net[o].phase = "body"
    /\ ~xml[o].root_done
    /\ \E r \in {OnData(prop[o], xml[o], data)} :
          /\ prop' = [prop EXCEPT ![o] = r.p]
          /\ xml' = [xml EXCEPT ![o] = r.x]
          /\ io' = AfterHandler(o, r.set_done, r.error)
    /\ net' = [net EXCEPT ![o].answer.body = @ \o data, ![o].pos = @ + Len(data)]
    /\ hist' = [hist EXCEPT ![o].parse_called = TRUE, ![o].bytes_parsed = TRUE]
    /\ UNCHANGED <<pc, ret, done, postponed_error, mutex, deferred, request, env, storage>>

\* The next response element arrives, after the root's start tag if it is
\* the first
TransportResponse(o) ==
    /\ ResponsesIn(net[o].answer.body) < MaxRecords
    /\ \E e \in env.responses :
          Deliver(o, (IF net[o].pos = 0 THEN Open("DAV:|multistatus") ELSE <<>>) \o e)

\* The end tag of the root arrives
TransportLast(o) ==
    /\ \E tag \in {Close("DAV:|multistatus")} :
          Deliver(o, (IF net[o].pos = 0 THEN Open("DAV:|multistatus") ELSE <<>>) \o tag)

NextRecords ==
    \E t \in Threads :
        \/ WaitLock(t)
        \/ WaitCheck(t)
        \/ TransportResponse(t)
        \/ TransportLast(t)
        \/ TransportEnd(t)
        \/ IoStep(t)

SpecRecords == InitRecords /\ [][NextRecords]_vars

-----------------------------------------------------------------------------
(* Properties of the whole system (Spec) *)

Finished(t) == pc[t] = "finished"

Raised(t, e) == ret[t] = [NoResult EXCEPT !.kind = "raised", !.error = e]

WellFormedBodies == {a.body : a \in {b \in Answers : WellFormed(b.body)}}

\* The answer passes OnHeaders() and the transfer brings all of its body
GoodEnvelope(a) == a.status = 207 /\ a.headers = XmlHeaders /\ a.end = "ok"

\* C1: Wait() does not return, normally or by raising, while done is false;
\* once done is true it raises exactly the error the transport passed to
\* OnError(), and returns normally if there was none.
C1_WaitReturnsWhenDone ==
    \A t \in DOMAIN pc :
        Finished(t) =>
            /\ done[t]
            /\ IF hist[t].on_error_arg # NoError
               THEN ret[t].kind = "raised" /\ ret[t].error = hist[t].on_error_arg
               ELSE ret[t].kind \in {"info", "reader"} /\ ret[t].error = NoError

\* A caller that cond.wait() woke without a signal, and that in the end got
\* the transport's own error
C1_Witness ==
    \E t \in DOMAIN pc :
        /\ Finished(t) /\ hist[t].wakeups > 0
        /\ Raised(t, "CURLE_OPERATION_TIMEDOUT")

\* C2: done goes from false to true at most once and is never reset:
\* SetDone() and RunDeferred() are never entered with done already true,
\* whatever the transport's callbacks do, those that fail included.
C2_DoneSetOnce ==
    \A t \in DOMAIN pc :
        /\ ~hist[t].assert_failed
        /\ hist[t].set_done_calls <= 1
        /\ done[t] <=> hist[t].set_done_calls = 1

\* An operation whose OnEnd() failed in Parse(), and which is done
C2_Witness ==
    \E t \in DOMAIN pc :
        /\ hist[t].parse_error_in = "OnEnd" /\ done[t]
        /\ hist[t].set_done_calls = 1

\* C3: an answer whose status is not 207 fails the operation with the
\* protocol error, which is what the caller gets from Wait(); no byte of its
\* body reaches the parser, and no record is emitted.
C3_Not207Fails ==
    \A t \in DOMAIN pc :
        (hist[t].headers_seen /\ net[t].answer.status # 207) =>
            /\ ~hist[t].parse_called /\ ~hist[t].bytes_parsed /\ ~hist[t].end_called
            /\ prop[t].emitted = <<>> /\ xml[t] = NewParser
            /\ postponed_error[t] \in {NoError, StatusError}
            /\ done[t] => postponed_error[t] = StatusError
            /\ Finished(t) => Raised(t, StatusError)

\* A caller that got the protocol error for a status-200 answer with a body
C3_Witness ==
    \E t \in DOMAIN pc :
        /\ Finished(t) /\ Raised(t, StatusError)
        /\ net[t].answer.status = 200 /\ net[t].answer.body # <<>>

\* The records the whole body gives when one OnData() call delivers it
SingleCallRecords(p, body) ==
    LET fresh == [p EXCEPT !.state = "ROOT", !.response = DavResponse,
                           !.info = StorageFileInfo("OTHER"), !.entries = <<>>,
                           !.emitted = <<>>]
        data == OnData(fresh, NewParser, body)
    IN  OnEnd(data.p, data.x).p.emitted

\* C4: for a well-formed body, however it is split into OnData() calls, the
\* records emitted are those of a single OnData() call with the whole body.
C4_ChunkingKeepsRecords ==
    \A t \in DOMAIN pc :
        (/\ hist[t].end_called /\ hist[t].parse_error_in = "none"
         /\ net[t].answer.body \in WellFormedBodies) =>
            prop[t].emitted = SingleCallRecords(prop[t], net[t].answer.body)

\* C8: an operation that ends in an error raises it: the caller gets no
\* FileInfo and no reader, whatever was accumulated before the error.
C8_ErrorGivesNoResult ==
    \A t \in DOMAIN pc :
        (Finished(t) /\ postponed_error[t] # NoError) =>
            Raised(t, postponed_error[t])

\* A listing that had entries when it failed
C8_Witness ==
    \E t \in DOMAIN pc :
        /\ Finished(t) /\ ret[t].kind = "raised"
        /\ prop[t].entries # <<>>

\* C9: request.Start() never runs on the caller's thread: the constructor
\* only schedules the deferred start, which runs on the transport thread.
C9_StartOnTransportThread ==
    \A t \in DOMAIN pc :
        /\ hist[t].started_on \in {"none", "io"}
        /\ prop[t].class # "none" => (deferred[t] <=> hist[t].started_on = "none")
        /\ prop[t].class = "none" => ~deferred[t] /\ ~request[t].registered

\* A transfer the transport thread started
C9_Witness ==
    \E t \in DOMAIN pc :
        /\ hist[t].started_on = "io" /\ request[t].registered
        /\ pc[t] \notin {"idle", "finished"}

\* C10: a malformed body makes the operation fail with the parse error of
\* the last Parse() call, the one in OnEnd(); it is the error the caller gets
\* from Wait(), and the operation never completes without error.
C10_MalformedFailsAtEnd ==
    \A t \in DOMAIN pc :
        (GoodEnvelope(net[t].answer) /\ net[t].answer.body \notin WellFormedBodies) =>
            /\ hist[t].parse_error_in # "OnData"
            /\ hist[t].end_called => hist[t].parse_error_in = "OnEnd"
            /\ postponed_error[t] \in {NoError, "ExpatError"}
            /\ done[t] => postponed_error[t] = "ExpatError"
            /\ Finished(t) => Raised(t, "ExpatError")

\* A caller that got the parse error for a body with a mismatched end tag
C10_Witness ==
    \E t \in DOMAIN pc :
        /\ Finished(t) /\ Raised(t, "ExpatError")
        /\ net[t].answer.body = DocMismatched
        /\ prop[t].emitted # <<>>

-----------------------------------------------------------------------------
(* Properties of the operations over records (SpecRecords) *)

\* The path of a record's href, as a sequence; <<>> when it has none
PathOf(r) == LET path == uri_get_path(r.href) IN IF path.null THEN <<>> ELSE path.s

\* What is left of the path of r's href after the base path
Remainder(base_path, r) == SubSeq(PathOf(r), Len(base_path) + 1, Len(PathOf(r)))

\* Where the slashes of s are
Slashes(s) == {i \in 1..Len(s) : s[i] = "/"}

\* The record is one the listing of base_path has an entry for
Contributes(base_path, r) ==
    /\ r.status = 200
    /\ Len(PathOf(r)) >= Len(base_path)
    /\ SubSeq(PathOf(r), 1, Len(base_path)) = base_path
    /\ Remainder(base_path, r) # <<>>
    /\ Slashes(Remainder(base_path, r)) \in {{}, {Len(Remainder(base_path, r))}}

\* The name of that entry: the remainder without its slash
EntryName(base_path, r) ==
    LET IsNoSlash(a) == a # "/" IN SelectSeq(Remainder(base_path, r), IsNoSlash)

\* The records of a listing that have an entry, in the order of the entries
\* (emplace_front: the latest first)
Contributing(p) ==
    LET Test(r) == Contributes(p.base_path, r)
        c == SelectSeq(p.emitted, Test)
    IN  [i \in 1..Len(c) |-> c[Len(c) + 1 - i]]

IsGetInfo(t) == prop[t].class = "HttpGetInfoOperation"

IsListing(t) == prop[t].class = "HttpListDirectoryOperation"

\* C5: the FileInfo of an info operation that completes without error depends
\* on the emitted records with status 200 only: without one it is {Other, size
\* 0, default time}, otherwise it is built from the last of them (Directory if
\* isCollection, else Regular; size = length; time = the record's); records
\* with another status change nothing, wherever they are.
C5_InfoFromLast200 ==
    \A t \in DOMAIN pc :
        IsGetInfo(t) =>
            LET Is200(r) == r.status = 200
                ok == SelectSeq(prop[t].emitted, Is200)
                last == ok[Len(ok)]
                expected ==
                    IF ok = <<>>
                    THEN [type |-> "OTHER", size |-> 0, mtime |-> MinTime]
                    ELSE [type |-> IF last.collection THEN "DIRECTORY" ELSE "REGULAR",
                          size |-> last.length, mtime |-> last.mtime]
            IN  /\ prop[t].info = expected
                /\ (Finished(t) /\ postponed_error[t] = NoError) =>
                       ret[t] = [NoResult EXCEPT !.kind = "info", !.info = expected]

\* An info operation that returned the second of two different status-200
\* records, a status-404 record having come last
C5_Witness ==
    \E t \in DOMAIN pc :
        /\ IsGetInfo(t) /\ Finished(t) /\ ret[t].kind = "info"
        /\ Len(prop[t].emitted) = 3
        /\ prop[t].emitted[1].status = 200 /\ prop[t].emitted[2].status = 200
        /\ prop[t].emitted[3].status = 404
        /\ prop[t].emitted[1].length # prop[t].emitted[2].length
        /\ prop[t].emitted[3].length # prop[t].emitted[2].length
        /\ ret[t].info.size = prop[t].emitted[2].length

\* C6: in a listing with base path B, a status-200 record has an entry if and
\* only if the path of its href starts with B and the remainder is not empty
\* and has no slash (the name is the remainder) or one slash, its last
\* character (the name is the remainder without it); every other record has
\* none, and each such record has exactly one entry.
C6_EntryIffOneLevelBelow ==
    \A t \in DOMAIN pc :
        IsListing(t) =>
            LET c == Contributing(prop[t])
            IN  /\ Len(prop[t].entries) = Len(c)
                /\ \A i \in 1..Len(c) :
                       prop[t].entries[i].name = EntryName(prop[t].base_path, c[i])
                /\ (Finished(t) /\ postponed_error[t] = NoError) =>
                       /\ ret[t].kind = "reader"
                       /\ ret[t].entries = prop[t].entries

\* A listing that returned the one entry "sub" after records for sub/, for
\* something two levels down and for something outside the base path
C6_Witness ==
    \E t \in DOMAIN pc :
        /\ IsListing(t) /\ Finished(t) /\ ret[t].kind = "reader"
        /\ Len(prop[t].emitted) = 3 /\ Len(ret[t].entries) = 1
        /\ ret[t].entries[1].name = <<"sub">>
        /\ \E i \in 1..3 : prop[t].emitted[i].href = Music(<<"sub", "/", "deep.mp3">>)
        /\ \E i \in 1..3 : prop[t].emitted[i].href = <<"/", "other", "/", "b.mp3">>

-----------------------------------------------------------------------------
(* Properties of the response headers (Spec) *)

\* The media types that say that a body is XML
XmlMediaTypes == {"text/xml", "application/xml"}

\* The Content-Type header is there and indicates XML
IndicatesXml(headers) ==
    /\ "content-type" \in DOMAIN headers
    /\ headers["content-type"] # <<>>
    /\ Head(headers["content-type"]) \in XmlMediaTypes

\* C11: a status-207 answer passes the header validation exactly when its
\* Content-Type indicates XML (text/xml or application/xml, with or without
\* parameters); without one, or with another one, the operation fails with
\* the protocol error.
C11_XmlContentTypePasses ==
    \A t \in DOMAIN pc :
        (hist[t].headers_seen /\ net[t].answer.status = 207 /\ done[t]) =>
            (postponed_error[t] = ContentTypeError
                <=> ~IndicatesXml(net[t].answer.headers))

-----------------------------------------------------------------------------
(* CurlStorage: the mapping between paths and URIs, called with any path   *)
(* of up to MaxPathLen atoms on a storage with any of the base URIs        *)

MaxPathLen == 3

PathAtoms == {"a", "b.mp3", " ", "/"}

Paths == UNION {[1..n -> PathAtoms] : n \in 0..MaxPathLen}

Bases == {Base, <<"http://host", "/", "music">>, <<"http://host", "/", "music", "/">>}

\* PathTraitsUTF8::Build(a, b): b appended to a
PathTraitsUTF8_Build(a, b) == a \o b

\* PathTraitsUTF8::Relative(base, other): what follows base in other, no
\* match when other does not start with base
PathTraitsUTF8_Relative(base, other) == StringAfterPrefix(other, base)

\* CurlStorage::MapUTF8
MapUTF8(base, uri_utf8) ==
    IF uri_utf8 = <<>> THEN base
    ELSE PathTraitsUTF8_Build(base, curl_easy_escape(uri_utf8))

\* Mutant of MapToRelativeUTF8: the base is not taken off
MapToRelativeUTF8KeepsBase(base, uri_utf8) == View(uri_utf8)

\* CurlStorage::MapToRelativeUTF8
MapToRelativeUTF8(base, uri_utf8) == PathTraitsUTF8_Relative(base, uri_utf8)

InitMap ==
    /\ InitFor(Threads, [uris |-> Paths, answers |-> {}, responses |-> {}])
    /\ \E base \in Bases : storage = CurlStorage(base)

\* A caller maps a path to a URI
Storage_MapUTF8(t) ==
    /\ pc[t] = "idle"
    /\ \E uri_utf8 \in env.uris :
          ret' = [ret EXCEPT ![t] =
                    [kind |-> "uri", arg |-> uri_utf8,
                     uri |-> MapUTF8(storage.base, uri_utf8),
                     relative |-> NullView]]
    /\ pc' = [pc EXCEPT ![t] = "mapped"]
    /\ UNCHANGED <<done, postponed_error, mutex, deferred, request, net, io, xml,
                   prop, hist, env, storage>>

\* and maps the URI back
Storage_MapToRelativeUTF8(t) ==
    /\ pc[t] = "mapped"
    /\ ret' = [ret EXCEPT ![t].kind = "relative",
                          ![t].relative = MapToRelativeUTF8(storage.base, ret[t].uri)]
    /\ pc' = [pc EXCEPT ![t] = "finished"]
    /\ UNCHANGED <<done, postponed_error, mutex, deferred, request, net, io, xml,
                   prop, hist, env, storage>>

NextMap ==
    \E t \in Threads :
        \/ Storage_MapUTF8(t)
        \/ Storage_MapToRelativeUTF8(t)

SpecMap == InitMap /\ [][NextMap]_vars

\* The path has no character that curl_easy_escape() encodes
NeedsNoEscape(path) == curl_easy_escape(path) = path

\* C12: for every base URI and every path without a character that needs
\* percent-encoding, MapToRelativeUTF8(MapUTF8(p)) is p; MapUTF8("") is the
\* base URI unchanged.
C12_MapRoundTrip ==
    \A t \in DOMAIN pc :
        /\ (ret[t].kind \in {"uri", "relative"} /\ ret[t].arg = <<>>) =>
               ret[t].uri = storage.base
        /\ (ret[t].kind = "relative" /\ NeedsNoEscape(ret[t].arg)) =>
               ret[t].relative = [null |-> FALSE, s |-> ret[t].arg]

\* A path of two atoms that came back from a base URI with a directory
C12_Witness ==
    \E t \in DOMAIN pc :
        /\ ret[t].kind = "relative" /\ ret[t].arg = <<"a", "b.mp3">>
        /\ storage.base = <<"http://host", "/", "music", "/">>
        /\ ret[t].relative.s = <<"a", "b.mp3">>

-----------------------------------------------------------------------------
(* Properties of the destructor (Spec) *)

\* C13: whichever thread destroys the storage, the transport context is torn
\* down on the transport thread, and the destructor does not return before
\* that is done.
C13_TeardownOnTransportThread ==
    /\ storage.curl = "deleted" <=> storage.deleted_on # "none"
    /\ storage.deleted_on \in {"none", "io"}
    /\ \A t \in DOMAIN pc :
          /\ pc[t] \in {"destroyed", "gone"} => storage.curl = "deleted"
          /\ pc[t] = "dtor" => storage.curl \in {"deleting", "deleted"}

\* A caller's thread whose destructor has returned after an operation
C13_Witness ==
    \E t \in DOMAIN pc :
        /\ pc[t] = "destroyed" /\ storage.deleted_on = "io"
        /\ ret[t].kind = "reader"

-----------------------------------------------------------------------------
(* Two callers at once on one storage, one in GetInfo and one in           *)
(* OpenDirectory; the one transport thread serves both transfers           *)

TwoThreads == {"t1", "t2"}

\* The answers: a multistatus document that arrives one response element
\* per OnData() call, each the same file, or no connection at all
TwoAnswers ==
    { Answer(207, XmlHeaders, <<>>, "ok"),
      Answer(0, <<>>, <<>>, "CURLE_COULDNT_CONNECT") }

TwoResponses == {FlatResponseXml(FileHref, StatusOkShort, FALSE, <<"1", "2">>)}

InitTwo ==
    /\ InitFor(TwoThreads, [uris |-> {<<>>}, answers |-> TwoAnswers,
                            responses |-> TwoResponses])
    /\ storage = CurlStorage(Base)

MaxTwoRecords == 2

\* The next response element arrives for one of the two operations
TransportResponseOfTwo(o) ==
    /\ ResponsesIn(net[o].answer.body) < MaxTwoRecords
    /\ TransportResponse(o)

\* The first caller asks for the info, the second for the listing
NextTwo ==
    \/ GetInfo("t1")
    \/ OpenDirectory("t2")
    \/ \E t \in TwoThreads :
        \/ PropfindOperation(t)
        \/ WaitLock(t)
        \/ WaitCheck(t)
        \/ RunDeferred(t)
        \/ TransportHeaders(t)
        \/ TransportResponseOfTwo(t)
        \/ TransportLast(t)
        \/ TransportEnd(t)
        \/ TransportFail(t)
        \/ IoStep(t)

SpecTwo == InitTwo /\ [][NextTwo]_vars

\* What an operation owns: its caller's position and result, its completion
\* state, its parser, its record and its result
OpState(o) == <<pc[o], ret[o], done[o], postponed_error[o], mutex[o], xml[o], prop[o]>>

\* C14: with two callers at once, each operation has its own done flag,
\* error, parser state, record and result: no step changes what two
\* operations own, done and the error of an operation are set only while the
\* transport thread completes that very operation, and each caller gets the
\* outcome of its own transfer.
C14_OperationsIndependent ==
    [][\A o \in DOMAIN pc :
          /\ \A other \in DOMAIN pc \ {o} :
                OpState(o)' # OpState(o) => OpState(other)' = OpState(other)
          /\ (done'[o] # done[o] \/ postponed_error'[o] # postponed_error[o]) =>
                /\ io.op = o
                /\ net[o].phase = "closed" \/ hist[o].headers_seen
          /\ (pc[o] # "finished" /\ pc'[o] = "finished") =>
                /\ done[o]
                /\ ret'[o].kind = "raised" =>
                       \/ ret'[o].error = net[o].answer.end
                       \/ ret'[o].error = "ExpatError" /\ ~xml[o].root_done
                /\ ret'[o].kind # "raised" =>
                       /\ net[o].answer.end = "ok" /\ xml[o].root_done
                       /\ ret'[o].info = (IF IsGetInfo(o) THEN prop[o].info ELSE NoInfo)
                       /\ ret'[o].entries = prop[o].entries
                       /\ Len(prop[o].emitted) = ResponsesIn(net[o].answer.body)]_vars

\* One caller has its entries while the other has the error of its own
\* transfer, which ended first
C14_Witness ==
    /\ DOMAIN pc = TwoThreads
    /\ pc["t2"] = "finished" /\ ret["t2"].kind = "reader" /\ prop["t2"].emitted # <<>>
    /\ pc["t1"] = "finished" /\ ret["t1"].kind = "raised"
    /\ prop["t1"].emitted = <<>>

-----------------------------------------------------------------------------
(* The XML state machine under any sequence of parser events: the          *)
(* operation is that of a caller blocked in Wait(), and the parser calls   *)
(* StartElement(), EndElement() and CharacterData() with any name and any  *)
(* of the texts, until MaxEmitted records have been emitted.               *)

MaxEmitted == 2

ElementNames ==
    {"DAV:|response", "DAV:|href", "DAV:|status",
     "DAV:|resourcetype", "DAV:|collection", "DAV:|getlastmodified",
     "DAV:|getcontentlength", "DAV:|displayname"}

EventTexts == {FileHref, StatusOkShort}

\* The parser event is noted in the history of operation o
Noted(o, kind, name) ==
    hist' = [hist EXCEPT ![o].event = [kind |-> kind, name |-> name]]

ExpatStartElement(o) ==
    /\ Len(prop[o].emitted) < MaxEmitted
    /\ \E name \in ElementNames :
          /\ prop' = [prop EXCEPT ![o] = StartElement(@, name)]
          /\ Noted(o, "start", name)
    /\ UNCHANGED <<pc, ret, done, postponed_error, mutex, deferred, request, net,
                   io, xml, env, storage>>

ExpatEndElement(o) ==
    /\ Len(prop[o].emitted) < MaxEmitted
    /\ \E name \in ElementNames :
          /\ prop' = [prop EXCEPT ![o] = EndElement(@, name)]
          /\ Noted(o, "end", name)
    /\ UNCHANGED <<pc, ret, done, postponed_error, mutex, deferred, request, net,
                   io, xml, env, storage>>

ExpatCharacterData(o) ==
    /\ Len(prop[o].emitted) < MaxEmitted
    /\ \E text \in EventTexts :
          prop' = [prop EXCEPT ![o] = CharacterData(@, text)]
    /\ Noted(o, "text", "")
    /\ UNCHANGED <<pc, ret, done, postponed_error, mutex, deferred, request, net,
                   io, xml, env, storage>>

NextEvents ==
    \E t \in Threads :
        \/ ExpatStartElement(t)
        \/ ExpatEndElement(t)
        \/ ExpatCharacterData(t)

\* The operation is a directory listing, which keeps every record it takes
InitEvents ==
    /\ InitRecords
    /\ \A t \in Threads : prop[t].class = "HttpListDirectoryOperation"

SpecEvents == InitEvents /\ [][NextEvents]_vars

\* The parser event that the last step handed to operation o
Event(o) == hist[o].event

\* C15: every end-tag of a response element met in state RESPONSE finishes the
\* record: the state becomes ROOT, the record is emitted if and only if its
\* href is not empty, and the accumulated record is the default again; no other
\* step emits a record, and in state ROOT the accumulated record is always the
\* default one, so no field of one response reaches the next.
C15_EndOfResponseFinishes ==
    /\ [](\A o \in Threads : prop[o].state = "ROOT" => prop[o].response = DavResponse)
    /\ [][\A o \in Threads :
            IF /\ prop[o].state = "RESPONSE"
               /\ Event(o)' = [kind |-> "end", name |-> "DAV:|response"]
            THEN /\ prop'[o].state = "ROOT"
                 /\ prop'[o].response = DavResponse
                 /\ prop'[o].emitted =
                        IF prop[o].response.href # <<>>
                        THEN Append(prop[o].emitted, prop[o].response)
                        ELSE prop[o].emitted
            ELSE prop'[o].emitted = prop[o].emitted]_vars

\* Two records were emitted, the second with fewer fields set than the first:
\* what the first response set did not reach the second
C15_Witness ==
    \E o \in Threads :
        /\ Len(prop[o].emitted) = 2
        /\ prop[o].emitted[1].collection
        /\ prop[o].emitted[1].status = 200
        /\ ~prop[o].emitted[2].collection
        /\ prop[o].emitted[2].status = 0
        /\ prop[o].state = "ROOT"

\* The state of a field, by the name of its element
FieldState ==
    [name \in {"DAV:|href", "DAV:|status", "DAV:|resourcetype",
               "DAV:|getlastmodified", "DAV:|getcontentlength"} |->
        CASE name = "DAV:|href" -> "HREF"
          [] name = "DAV:|status" -> "STATUS"
          [] name = "DAV:|resourcetype" -> "TYPE"
          [] name = "DAV:|getlastmodified" -> "MTIME"
          [] name = "DAV:|getcontentlength" -> "LENGTH"]

\* The transitions: <<from, start or end, element, to>>
Transitions ==
    {<<"ROOT", "start", "DAV:|response", "RESPONSE">>,
     <<"RESPONSE", "end", "DAV:|response", "ROOT">>}
    \cup {<<"RESPONSE", "start", name, FieldState[name]>> : name \in DOMAIN FieldState}
    \cup {<<FieldState[name], "end", name, "RESPONSE">> : name \in DOMAIN FieldState}

\* C16: a step changes the parser state exactly when the state, the kind of
\* tag and the element name are those of a transition of the table (ROOT to
\* RESPONSE on start-tag response, RESPONSE to a field state on the field's
\* start-tag, a field state back to RESPONSE on its own end-tag, RESPONSE to
\* ROOT on end-tag response) and then to that transition's target; every other
\* start-tag, end-tag or text leaves the state as it is, and no step goes from
\* ROOT to a field state.
C16_OnlyTabledTransitions ==
    [][\A o \in Threads :
         LET from == prop[o].state
             to == prop'[o].state
             rows == {r \in Transitions :
                         /\ r[1] = from
                         /\ r[2] = Event(o)'.kind
                         /\ r[3] = Event(o)'.name}
         IN  /\ rows = {} => to = from
             /\ \A r \in rows : to = r[4]
             /\ from = "ROOT" => to \in {"ROOT", "RESPONSE"}]_vars

\* In the href field the end-tag of another element has come, and the state
\* is still that of the href field
C16_Witness ==
    \E o \in Threads :
        /\ prop[o].state = "HREF"
        /\ Event(o) = [kind |-> "end", name |-> "DAV:|status"]

-----------------------------------------------------------------------------
(* Responses with field values that cannot be read: the operation of       *)
(* SpecRecords, the server sending response elements in which the status,  *)
(* the length and the time stamp are each either readable or not.          *)

UnreadableStatus == <<"HTTP/1.1">>

UnreadableLength == <<"abc">>

UnreadableTime == <<"yesterday">>

\* What the server says of a.mp3, the texts of the three parsed fields: all
\* of them readable, one of them not, none of them
FieldTexts ==
    {f \in [status : {StatusOkShort, UnreadableStatus},
            length : {<<"1", "2">>, UnreadableLength},
            time : {SunTime, UnreadableTime}] :
        Cardinality({f.status, f.length, f.time}
                    \cap {UnreadableStatus, UnreadableLength, UnreadableTime})
            \in {0, 1, 3}}

FieldXml(f) ==
    TimedResponseXml(Music(<<"a.mp3">>), f.status, FALSE, f.length, f.time)

FieldElements == {FieldXml(f) : f \in FieldTexts}

InitFields == InitRecordsOf(FieldElements)

SpecFields == InitFields /\ [][NextRecords]_vars

\* The record to expect of a response element with the texts f
FieldRecord(f) ==
    [href |-> Music(<<"a.mp3">>),
     status |-> IF f.status = UnreadableStatus THEN 0 ELSE 200,
     collection |-> FALSE,
     mtime |-> IF f.time = UnreadableTime THEN MinTime ELSE 784111777,
     length |-> IF f.length = UnreadableLength THEN 0 ELSE 12]

\* The texts of the response element that body begins with, if it does
FirstIn(body) ==
    {f \in FieldTexts :
        /\ Len(body) >= Len(FieldXml(f))
        /\ SubSeq(body, 1, Len(FieldXml(f))) = FieldXml(f)}

\* The records to expect of the response elements that body begins with
RECURSIVE FieldRecords(_)
FieldRecords(body) ==
    IF FirstIn(body) = {} THEN <<>>
    ELSE LET f == CHOOSE g \in FirstIn(body) : TRUE
         IN  <<FieldRecord(f)>>
             \o FieldRecords(SubSeq(body, Len(FieldXml(f)) + 1, Len(body)))

\* C17: a field value that cannot be read does not fail the operation: for
\* every response element that has arrived a record is emitted, with status 0
\* where the status text has no space, length 0 where the length text is not a
\* number, the minimal time where the time stamp does not parse, and every
\* other field as the server sent it; no error is postponed before the stream
\* ends, and when the document is complete the operation finishes without one.
C17_UnreadableFieldsDegrade ==
    \A o \in Threads :
        LET body == net[o].answer.body
            sent == SubSeq(body, Len(Open("DAV:|multistatus")) + 1, Len(body))
        IN  /\ prop[o].emitted = FieldRecords(sent)
            /\ Len(prop[o].emitted) = ResponsesIn(body)
            /\ ~hist[o].end_called => postponed_error[o] = NoError
            /\ xml[o].root_done => postponed_error[o] = NoError
            /\ (xml[o].root_done /\ Finished(o)) => ret[o].kind \in {"info", "reader"}

\* An info operation has finished without error on a status-200 record whose
\* time stamp could not be read, after a record whose status could not be read
C17_Witness ==
    \E o \in Threads :
        /\ Finished(o) /\ ret[o].kind = "info"
        /\ Len(prop[o].emitted) = 2
        /\ prop[o].emitted[1] =
              [href |-> Music(<<"a.mp3">>), status |-> 0, collection |-> FALSE,
               mtime |-> 784111777, length |-> 12]
        /\ prop[o].emitted[2] =
              [href |-> Music(<<"a.mp3">>), status |-> 200, collection |-> FALSE,
               mtime |-> MinTime, length |-> 12]
        /\ ret[o].info = [type |-> "REGULAR", size |-> 12, mtime |-> MinTime]

-----------------------------------------------------------------------------
(* Progress.  The transport thread is scheduled: what it can do, it does,  *)
(* so that a started request gets its answer to the end, OnEnd() or        *)
(* OnError(), a handler method's exception going to OnError().  A caller   *)
(* that can take the mutex, or holds it, goes on.  Nothing is assumed of   *)
(* spurious wake-ups.                                                      *)

Fairness ==
    \A t \in Threads :
        /\ WF_vars(RunDeferred(t))
        /\ WF_vars(TransportHeaders(t))
        /\ WF_vars(TransportData(t))
        /\ WF_vars(TransportEnd(t))
        /\ WF_vars(TransportFail(t))
        /\ WF_vars(IoStep(t))
        /\ WF_vars(WaitLock(t))
        /\ WF_vars(WaitCheck(t))

\* Answers of every ending: a document; one that ends early, which OnEnd()
\* finds; one with a wrong end tag, which OnData() finds; a status OnHeaders()
\* refuses; no connection; a connection lost in the body
LiveAnswers ==
    { Answer(207, XmlHeaders, Multistatus(DirXml), "ok"),
      Answer(207, XmlHeaders, SubSeq(Multistatus(DirXml), 1, 8), "ok"),
      Answer(207, XmlHeaders,
             Open("DAV:|multistatus") \o Close("DAV:|response"), "ok"),
      Answer(404, XmlHeaders, <<>>, "ok"),
      Answer(0, <<>>, <<>>, "CURLE_COULDNT_CONNECT"),
      Answer(207, XmlHeaders, SubSeq(Multistatus(DirXml), 1, 5), "CURLE_RECV_ERROR") }

InitLive ==
    /\ InitFor(Threads, [uris |-> {<<>>}, answers |-> LiveAnswers, responses |-> {}])
    /\ storage = CurlStorage(Base)

SpecLive == InitLive /\ [][Next]_vars /\ Fairness

\* The caller t is in Wait(): about to take the mutex, holding it, or in
\* cond.wait()
InWait(t) == pc[t] \in {"perform", "locked", "blocked", "woken", "relocked"}

\* C18: under a fairly scheduled transport thread that brings every started
\* request to OnEnd() or OnError(), every call of Wait() comes to its end, by
\* return or by rethrow, also when the operation was done before Wait() took
\* the mutex.
C18_WaitEnds ==
    \A t \in Threads : InWait(t) ~> Finished(t)

\* The operation is done, with an error, and its caller has yet to enter Wait()
C18_Witness ==
    \E t \in Threads :
        /\ pc[t] = "perform"
        /\ done[t]
        /\ postponed_error[t] # NoError

-----------------------------------------------------------------------------
\* C19: the deferred start runs only when the request is configured: whenever
\* request.Start() has run for an operation, the constructor of
\* PropfindOperation had set the method PROPFIND, the Depth header and the
\* request body before.
C19_StartAfterConfigured ==
    \A t \in Threads :
        hist[t].started_on # "none" => hist[t].started_configured

-----------------------------------------------------------------------------
\* The result of an operation: the info, or the entries
Result(p) == IF p.class = "HttpGetInfoOperation" THEN <<p.info>> ELSE <<p.entries>>

\* C20: the result of an operation is not shared between the threads.  A step
\* of the transport thread (one that leaves the caller where it is) changes
\* the result only when the operation is constructed and not done; the caller
\* changes it in no step after the one that creates the operation, and takes
\* it as its return value only when done is set; and once done is set no
\* parser callback runs and no record is emitted.
C20_ResultNotShared ==
    [][\A t \in Threads :
         /\ (pc'[t] = pc[t] /\ Result(prop'[t]) # Result(prop[t])) =>
                ~done[t] /\ pc[t] \notin {"idle", "ctor"}
         /\ (pc'[t] # pc[t] /\ pc[t] # "idle") => Result(prop'[t]) = Result(prop[t])
         /\ ret'[t] # ret[t] => done[t]
         /\ done[t] => /\ prop'[t].emitted = prop[t].emitted
                       /\ xml'[t] = xml[t]]_vars

-----------------------------------------------------------------------------
\* C21: every entry of a directory listing has a name that is not empty and
\* has no slash in it, whatever status-200 records have come, also for a
\* href whose remainder after the base path is a lone slash.
C21_EntryNamesProper ==
    \A t \in Threads :
        IsListing(t) =>
            \A i \in 1..Len(prop[t].entries) :
                /\ prop[t].entries[i].name # <<>>
                /\ Slashes(prop[t].entries[i].name) = {}

====
